---- MODULE Spec2Model ----
(***************************************************************************)
(* Verification model of uhmactually: the validator resolution/execution   *)
(* pipeline.  The repository holds two generations of the engine, both     *)
(* named ValidatedModel:                                                   *)
(*   - uhmactually/validator.py  (decorator-attached Validator objects, a  *)
(*     process-wide registry, CallableValue accessors); its operations     *)
(*     are the V... actions and its state the first group of variables;    *)
(*   - uhmactually/core.py       (the @validate wrapper with inline        *)
(*     checks, to_dict/from_dict); its operations are the C... actions.    *)
(* Python values are modelled as tagged records, Python dicts as functions *)
(* over the set of present keys, exceptions as records.                    *)
(***************************************************************************)
EXTENDS Integers, Sequences, FiniteSets, TLC

\* ------------------------------------------------------------------------
\* Python values
\* ------------------------------------------------------------------------
\* A value is a record: the tag t, the number n of an int, the characters s
\* of a str, the items l of a list/tuple/set, the entries d of a dict or of a
\* model instance's _data (in insertion order) and the class c of an instance.
Val(t, n, s, l, d, c) == [t |-> t, n |-> n, s |-> s, l |-> l, d |-> d, c |-> c]

None == Val("none", 0, <<>>, <<>>, <<>>, "")
I(k) == Val("int", k, <<>>, <<>>, <<>>, "")
S(q) == Val("str", 0, q, <<>>, <<>>, "")
\* the float k.0
F(k) == Val("float", k, <<>>, <<>>, <<>>, "")
PyList(items) == Val("list", 0, <<>>, items, <<>>, "")
PyTuple(items) == Val("tuple", 0, <<>>, items, <<>>, "")
\* a set: its items in iteration order, each once
PySet(items) == Val("set", 0, <<>>, items, <<>>, "")
PyDict(entries) == Val("dict", 0, <<>>, <<>>, entries, "")
PyModel(c, entries) == Val("model", 0, <<>>, <<>>, entries, c)

\* str.lower() on one character and on a string
LowerChar(c) ==
  CASE c = "A" -> "a"
    [] c = "B" -> "b"
    [] OTHER -> c

Lower(q) == [i \in DOMAIN q |-> LowerChar(q[i])]

\* "@" in value
HasAt(q) == \E i \in DOMAIN q : q[i] = "@"

\* exceptions: the type name and the field the exception names
NoExc == [type |-> "none", field |-> ""]
Exc(ty, f) == [type |-> ty, field |-> f]

\* dict helpers: d[k] = v, and d.get(k)
Put(d, k, v) == (k :> v) @@ d
DictGet(d, k) == IF k \in DOMAIN d THEN d[k] ELSE None
EmptyDict == <<>>

\* ------------------------------------------------------------------------
\* Bounds
\* ------------------------------------------------------------------------
\* number of set / validate calls made on one instance
MaxOps == 2
\* calls made on an instance of the core.py engine after its construction
MaxCalls == 3

\* ------------------------------------------------------------------------
\* Program constants of the modelled declarations
\* ------------------------------------------------------------------------
\* @min(10) of the test models
MinBound == 10
\* the upper bound of the stacked field: @max(20)
MaxBound == 20
\* the value the field body of value_custom rejects
Forbidden == 15

\* ------------------------------------------------------------------------
\* validator.py: model classes (the declarations the engine is run on)
\* ------------------------------------------------------------------------
\* A field declaration: the return annotation, the field body and the list
\* func._validators that generate_decorator builds.  Decorators apply
\* bottom-up, so the list is in attachment order, innermost first.
VDecl(ann, body, validators) == [ann |-> ann, body |-> body, validators |-> validators]

VAttach(kind, arg) == [kind |-> kind, arg |-> arg]

\* class body order of the fields of each model class
VDeclared(c) ==
  CASE c = "Number" -> <<"value", "value_custom">>
    [] c = "AllowNone" -> <<"value", "cannot_none">>
    [] c = "Stacked" -> <<"email", "age">>
    [] c = "Forward" -> <<"item">>

\* inspect.getmembers(self.__class__) returns the members sorted by name
VMembers(c) ==
  CASE c = "Number" -> <<"value", "value_custom">>
    [] c = "AllowNone" -> <<"cannot_none", "value">>
    [] c = "Stacked" -> <<"age", "email">>
    [] c = "Forward" -> <<"item">>

VClass(c) ==
  CASE c = "Number" ->
         [value |-> VDecl("int", "ret", <<VAttach("minnumber", MinBound)>>),
          value_custom |-> VDecl("int", "not15", <<VAttach("minnumber", MinBound)>>)]
    [] c = "AllowNone" ->
         [value |-> VDecl("int", "ret", <<VAttach("allownone", 0)>>),
          cannot_none |-> VDecl("int", "ret", <<>>)]
    [] c = "Stacked" ->
         [email |-> VDecl("str", "notnone", <<VAttach("email", 0)>>),
          age |-> VDecl("empty", "pass",
                        <<VAttach("maxnumber", MaxBound), VAttach("minnumber", MinBound)>>)]
    \* a return annotation given as a string that names nothing resolvable
    [] c = "Forward" ->
         [item |-> VDecl("unresolved", "not15", <<>>)]

VClasses == {"Number", "AllowNone", "Stacked", "Forward"}

VFieldSet(c) == {VDeclared(c)[i] : i \in DOMAIN VDeclared(c)}

\* the kinds a class attaches explicitly: their classes exist, so they are registered
VAttachedKinds(c) ==
  UNION {{VClass(c)[f].validators[i].kind : i \in DOMAIN VClass(c)[f].validators} :
           f \in VFieldSet(c)}

\* ------------------------------------------------------------------------
\* validator.py: the validators (validate and default of each kind)
\* ------------------------------------------------------------------------
\* A validator call ends in a ValidationResult(is_valid, value) or raises.
VSuccess(v) == [valid |-> TRUE, value |-> v, raised |-> "none"]
VFail == [valid |-> FALSE, value |-> None, raised |-> "none"]
VRaise(ty) == [valid |-> FALSE, value |-> None, raised |-> ty]

\* isinstance(value, type) / issubclass(type(value), annotation) on the value tags
IsInstance(v, ty) == v.t = ty

\* MinNumberValidator.validate: value >= min_value (a TypeError on None or str)
MinNumberValidate(v, min_value) ==
  IF v.t # "int" THEN VRaise("TypeError")
  ELSE IF v.n >= min_value THEN VSuccess(v) ELSE VFail

\* MaxNumberValidator.validate: value <= max_value
MaxNumberValidate(v, max_value) ==
  IF v.t # "int" THEN VRaise("TypeError")
  ELSE IF v.n <= max_value THEN VSuccess(v) ELSE VFail

\* TypeValidator.validate(type=...)
TypedValidate(v, ty) == IF IsInstance(v, ty) THEN VSuccess(v) ELSE VFail

\* TypeValidator.default: the return annotation of the field decides
TypedDefault(v, ann) ==
  IF ann = "empty" THEN VSuccess(v)
  \* issubclass(type(value), "Name") raises TypeError
  ELSE IF ann = "unresolved" THEN VRaise("TypeError")
  ELSE IF ~IsInstance(v, ann) THEN VFail
  ELSE VSuccess(v)

\* AllowNoneValidator.validate / default
AllowNoneValidate(v) == VSuccess(v)

AllowNoneDefault(v) == IF v = None THEN VFail ELSE VSuccess(v)

\* EmailValidator.validate: rejects None, non-strings and strings without "@",
\* and normalises an accepted address to lower case
EmailValidate(v) ==
  IF v = None THEN VRaise("ValidationException")
  ELSE IF v.t # "str" THEN VRaise("ValidationException")
  ELSE IF ~HasAt(v.s) THEN VRaise("ValidationException")
  ELSE VSuccess(S(Lower(v.s)))

\* validator_instance.validate(validation_input, **validator_kwargs)
VValidatorValidate(kind, arg, v) ==
  CASE kind = "minnumber" -> MinNumberValidate(v, arg)
    [] kind = "maxnumber" -> MaxNumberValidate(v, arg)
    [] kind = "allownone" -> AllowNoneValidate(v)
    [] kind = "email" -> EmailValidate(v)
    [] OTHER -> VSuccess(None)

\* validator_instance.default(validation_input)
VValidatorDefault(kind, v, ann) ==
  CASE kind = "minnumber" -> VSuccess(v)
    [] kind = "maxnumber" -> VSuccess(v)
    [] kind = "type" -> TypedDefault(v, ann)
    [] kind = "allownone" -> AllowNoneDefault(v)
    [] kind = "email" -> VSuccess(v)
    [] OTHER -> VSuccess(None)

\* The field body func(self, value): the value it returns, or the exception
VBody(body, v) ==
  CASE body = "ret" -> [raised |-> "none", result |-> v]
    [] body = "not15" -> IF v = I(Forbidden)
                          THEN [raised |-> "ValueError", result |-> None]
                          ELSE [raised |-> "none", result |-> v]
    [] body = "notnone" -> IF v = None
                            THEN [raised |-> "ValueError", result |-> None]
                            ELSE [raised |-> "none", result |-> v]
    [] OTHER -> [raised |-> "none", result |-> None]

\* ------------------------------------------------------------------------
\* validator.py: state of one ValidatedModel instance
\* ------------------------------------------------------------------------
VARIABLES
  cls,             \* the model class the instance belongs to
  registry,        \* _validator_registry: the kinds in registration order
  fields,          \* self._fields: the constructor arguments
  cached_values,   \* self._cached_values
  wrapped_values,  \* self._wrapped_values: field -> CallableValue.value
  inst_dict,       \* the instance __dict__ entries written by setattr(self, field, v)
  alive,           \* "new": not constructed, "live": constructed, "dead": __init__ raised
  last,            \* the last call: operation, field, argument, result, exception
  log,             \* the checks the last call executed, in execution order
  ops              \* number of calls made on the instance after construction

vvars == <<cls, registry, fields, cached_values, wrapped_values, inst_dict,
           alive, last, log, ops>>

\* one executed check: the field, the phase (body, validate, default) and the kind
Event(f, ph, kind) == [f |-> f, ph |-> ph, kind |-> kind]

Call(op, f, arg, ret, exc) == [op |-> op, f |-> f, arg |-> arg, ret |-> ret, exc |-> exc]

\* ValidatedModel.__getattribute__(name) for a declared field: what the lookup
\* yields ("wrapped": a CallableValue, "raw": the instance __dict__ entry,
\* "bound": the descriptor's bound method) and the _wrapped_values it leaves
VGetAttribute(wrapped, cached, inst, name) ==
  IF name \in DOMAIN wrapped THEN
    [how |-> "wrapped", wrapped |-> wrapped, value |-> wrapped[name]]
  ELSE IF name \in DOMAIN cached THEN
    [how |-> "wrapped", wrapped |-> Put(wrapped, name, cached[name]), value |-> cached[name]]
  ELSE IF name \in DOMAIN inst THEN
    [how |-> "raw", wrapped |-> wrapped, value |-> inst[name]]
  ELSE
    [how |-> "bound", wrapped |-> wrapped, value |-> None]

\* A variant of VRunExplicit that goes on after a failing validator, used to
\* show that the stop at the first failure is observed
RECURSIVE VRunExplicitOn(_, _, _, _, _)
VRunExplicitOn(st, decl, f, fv, i) ==
  IF i > Len(decl.validators) THEN st
  ELSE
    LET a == decl.validators[i]
        out == VValidatorValidate(a.kind, a.arg, fv)
        logged == [st EXCEPT !.log = Append(st.log, Event(f, "validate", a.kind))]
    IN IF ~out.valid
       THEN VRunExplicitOn([logged EXCEPT !.exc = Exc("ValidationException", f)],
                           decl, f, fv, i + 1)
       ELSE VRunExplicitOn(logged, decl, f, fv, i + 1)

\* The explicit validators of field f from position i on (validate, lines 300-314,
\* and _run_validator): each runs on the constructor value fv; a failure or an
\* exception raises ValidationException(f); a result value is stored with setattr.
RECURSIVE VRunExplicit(_, _, _, _, _)
VRunExplicit(st, decl, f, fv, i) ==
  IF i > Len(decl.validators) THEN st
  ELSE
    LET a == decl.validators[i]
        out == VValidatorValidate(a.kind, a.arg, fv)
        logged == [st EXCEPT !.log = Append(st.log, Event(f, "validate", a.kind))]
    IN IF ~out.valid THEN [logged EXCEPT !.exc = Exc("ValidationException", f)]
       ELSE IF out.value # None
         THEN VRunExplicit([logged EXCEPT !.inst = Put(logged.inst, f, out.value)],
                           decl, f, fv, i + 1)
       ELSE VRunExplicit(logged, decl, f, fv, i + 1)

\* A variant of VAlreadyUsed under which no kind counts as attached
VNeverUsed(decl, kind) == FALSE

\* validator_already_used: some explicit validator of the field has this kind
VAlreadyUsed(decl, kind) ==
  \E i \in DOMAIN decl.validators : decl.validators[i].kind = kind

\* A variant of VRunDefaults that goes through the registry from its end
RECURSIVE VRunDefaultsBack(_, _, _, _, _, _)
VRunDefaultsBack(st, reg, decl, f, fv, i) ==
  IF i > Len(reg) THEN st
  ELSE
    LET kind == reg[Len(reg) + 1 - i]
        out == VValidatorDefault(kind, fv, decl.ann)
        logged == [st EXCEPT !.log = Append(st.log, Event(f, "default", kind))]
    IN IF ~out.valid THEN [logged EXCEPT !.exc = Exc("ValidationException", f)]
       ELSE VRunDefaultsBack(logged, reg, decl, f, fv, i + 1)

\* The default checks of field f from registry position i on (validate, lines
\* 316-370): kinds attached explicitly are skipped; a result value replaces
\* field_value for the later defaults and is stored with setattr.
RECURSIVE VRunDefaults(_, _, _, _, _, _)
VRunDefaults(st, reg, decl, f, fv, i) ==
  IF i > Len(reg) THEN st
  ELSE IF VAlreadyUsed(decl, reg[i]) THEN VRunDefaults(st, reg, decl, f, fv, i + 1)
  ELSE
    LET out == VValidatorDefault(reg[i], fv, decl.ann)
        logged == [st EXCEPT !.log = Append(st.log, Event(f, "default", reg[i]))]
    IN IF ~out.valid THEN [logged EXCEPT !.exc = Exc("ValidationException", f)]
       ELSE IF out.value # None
         THEN VRunDefaults([logged EXCEPT !.inst = Put(logged.inst, f, out.value)],
                           reg, decl, f, out.value, i + 1)
       ELSE VRunDefaults(logged, reg, decl, f, fv, i + 1)

\* "except Exception as e" around the call of the field body (validate,
\* lines 288-298): an exception that is not a ValidationException is wrapped,
\* and the wrapping first calls get_type_hints(field_method), which raises
\* NameError on an annotation it cannot resolve
VBodyFailure(decl, f) ==
  IF decl.ann = "unresolved" THEN Exc("NameError", "")
  ELSE Exc("ValidationException", f)

\* One iteration of the loop over validation_fields (validate, lines 262-370)
VRunField(st, c, reg, flds, f) ==
  LET decl == VClass(c)[f]
      \* "field_name not in self._fields and not hasattr(self, field_name)":
      \* hasattr runs __getattribute__, which finds the descriptor at least
      probed == IF f \in DOMAIN flds THEN st
                ELSE [st EXCEPT !.wrapped =
                        VGetAttribute(st.wrapped, st.cached, st.inst, f).wrapped]
      fv == DictGet(flds, f)
      b == VBody(decl.body, fv)
      logged == [probed EXCEPT !.log = Append(probed.log, Event(f, "body", "body"))]
  IN IF b.raised # "none" THEN [logged EXCEPT !.exc = VBodyFailure(decl, f)]
     ELSE
       LET stored == IF b.result # None
                     THEN [logged EXCEPT !.cached = Put(logged.cached, f, b.result)]
                     ELSE logged
           explicit == VRunExplicit(stored, decl, f, fv, 1)
       IN IF explicit.exc # NoExc THEN explicit
          ELSE VRunDefaults(explicit, reg, decl, f, fv, 1)

\* ValidatedModel.validate(): the fields in getmembers order, up to the first exception
RECURSIVE VRunFields(_, _, _, _, _)
VRunFields(st, c, reg, flds, i) ==
  IF i > Len(VMembers(c)) \/ st.exc # NoExc THEN st
  ELSE VRunFields(VRunField(st, c, reg, flds, VMembers(c)[i]), c, reg, flds, i + 1)

VRun(c, reg, flds, cached, wrapped, inst) ==
  VRunFields([cached |-> cached, wrapped |-> wrapped, inst |-> inst,
              log |-> <<>>, exc |-> NoExc], c, reg, flds, 1)

\* ------------------------------------------------------------------------
\* validator.py: inputs
\* ------------------------------------------------------------------------
\* _validator_registry after the imports of a program: the decorated classes in
\* import order (validator_number registers min before max)
Registries ==
  { <<"minnumber", "maxnumber">>,
    <<"allownone">>,
    <<"minnumber", "maxnumber", "type">>,
    <<"type", "allownone", "minnumber", "maxnumber">>,
    <<"email", "minnumber", "maxnumber", "type">>,
    <<"allownone", "minnumber", "maxnumber", "email">> }

KindsOf(reg) == {reg[i] : i \in DOMAIN reg}

\* the values a caller passes for the fields of each class
VInputs(c) ==
  CASE c = "Number" -> {None, I(MinBound - 1), I(MinBound), I(Forbidden), S(<<"a">>)}
    [] c = "AllowNone" -> {None, I(MinBound - 1), I(MinBound), S(<<"a">>)}
    [] c = "Stacked" -> {None, I(MinBound - 1), I(Forbidden), I(MaxBound + 1),
                         S(<<"A", "@", "b">>), S(<<"a", "b">>)}
    [] c = "Forward" -> {None, I(MinBound), I(Forbidden)}

\* keyword arguments: any subset of the declared fields with a value each
VKwargs(c) == UNION {[D -> VInputs(c)] : D \in SUBSET VFieldSet(c)}

\* ------------------------------------------------------------------------
\* core.py: ordered dicts, declared types, errors
\* ------------------------------------------------------------------------
\* a dict entry; a dict is the sequence of its entries in insertion order
Entry(k, v) == [k |-> k, v |-> v]

ODHas(d, k) == \E i \in DOMAIN d : d[i].k = k

ODGet(d, k) == IF ODHas(d, k) THEN d[CHOOSE i \in DOMAIN d : d[i].k = k].v ELSE None

ODPut(d, k, v) ==
  IF ODHas(d, k)
  THEN [i \in DOMAIN d |-> IF d[i].k = k THEN Entry(k, v) ELSE d[i]]
  ELSE Append(d, Entry(k, v))

\* return annotations (typing descriptors)
Ty(k, name, args) == [k |-> k, name |-> name, args |-> args]

TPrim(name) == Ty("prim", name, <<>>)
TNoneType == Ty("prim", "none", <<>>)
TAny == Ty("any", "Any", <<>>)
TEmpty == Ty("empty", "_empty", <<>>)
TModel(c) == Ty("model", c, <<>>)
TList(e) == Ty("list", "list", <<e>>)
TSet(e) == Ty("set", "set", <<e>>)
TTuple(args) == Ty("tuple", "tuple", args)
TDict(kt, vt) == Ty("dict", "dict", <<kt, vt>>)
TUnion(alts) == Ty("union", "Union", alts)
TOptional(e) == TUnion(<<e, TNoneType>>)

\* one ValidationError of a ValidationResult: what failed, on which field, where
Error(kind, f, at) == [kind |-> kind, field |-> f, at |-> at]

\* a raised exception of core.py: its type, ValidationError.field and what failed
CNoExc == [type |-> "none", field |-> "", kind |-> ""]
CExc(ty, f, kind) == [type |-> ty, field |-> f, kind |-> kind]

\* the outcome of Validator.validate: the errors added, or the exception raised
TOk == [errors |-> <<>>, exc |-> CNoExc]
TErrs(errs) == [errors |-> errs, exc |-> CNoExc]
TRaise(e) == [errors |-> <<>>, exc |-> e]

\* ------------------------------------------------------------------------
\* core.py: model classes (the declarations the engine is run on)
\* ------------------------------------------------------------------------
\* a field: name, return annotation, how validate was applied ("bare": @validate,
\* "call": @validate(is_optional=flag), "direct": validate(func, is_optional=flag))
\* and the checks its body makes
CField(name, ann, form, flag, body) ==
  [name |-> name, ann |-> ann, form |-> form, flag |-> flag, body |-> body]

\* an inline check of a field body: min_value_check(arg, inclusive=incl), ...
Check(chk, arg, incl) == [chk |-> chk, arg |-> arg, incl |-> incl]

\* min_value_check(0.0) of FloatValidatorModel.non_negative
NonNegative == 0
\* max_value_check(1.0) of FloatValidatorModel.max_one
MaxOne == 1

\* the fields of each class, in class body order
FloatValidatorModel ==
  << CField("non_negative", TPrim("float"), "bare", FALSE, <<Check("min", NonNegative, TRUE)>>),
     CField("max_one", TPrim("float"), "call", TRUE, <<Check("max", MaxOne, TRUE)>>) >>

User ==
  << CField("username", TPrim("str"), "bare", FALSE, <<>>),
     CField("bio", TOptional(TPrim("str")), "bare", FALSE, <<>>) >>

Address ==
  << CField("street", TPrim("str"), "bare", FALSE, <<>>),
     CField("city", TPrim("str"), "bare", FALSE, <<>>) >>

UserProfile ==
  << CField("user", TModel("User"), "bare", FALSE, <<>>),
     CField("addresses", TList(TModel("Address")), "bare", FALSE, <<>>) >>

CClasses == {"FloatValidatorModel", "User", "Address", "UserProfile"}

CClass(c) ==
  CASE c = "FloatValidatorModel" -> FloatValidatorModel
    [] c = "User" -> User
    [] c = "Address" -> Address
    [] c = "UserProfile" -> UserProfile

CFieldNames(c) == {CClass(c)[i].name : i \in DOMAIN CClass(c)}

\* hasattr(self, name) and the attribute is a @validate field
CDeclares(c, name) == name \in CFieldNames(c)

CDeclOf(c, name) == CClass(c)[CHOOSE i \in DOMAIN CClass(c) : CClass(c)[i].name = name]

\* the is_optional the wrapper closes over: validate() hands its keyword on
\* only when it is given the function itself; @validate(is_optional=...)
\* returns the inner decorator, whose own parameter defaults to False
CIsOptional(decl) == decl.form = "direct" /\ decl.flag

\* is_optional_field: get_origin(field) is Union and type(None) in get_args(field)
IsOptionalField(ty) ==
  ty.k = "union" /\ \E i \in DOMAIN ty.args : ty.args[i] = TNoneType

\* ------------------------------------------------------------------------
\* core.py: TypeValidator
\* ------------------------------------------------------------------------
\* TypeValidator.is_of_type
RECURSIVE IsOfType(_, _)
IsOfType(obj, ty) ==
  CASE ty.k = "any" -> TRUE
    [] ty.k = "prim" -> obj.t = ty.name
    [] ty.k = "empty" -> FALSE
    [] ty.k = "model" -> obj.t = "model" /\ obj.c = ty.name
    [] ty.k = "union" -> \E i \in DOMAIN ty.args : IsOfType(obj, ty.args[i])
    [] OTHER -> obj.t = ty.k

\* the item type is a ValidatedModel subclass
IsModelClass(ty) == ty.k = "model"

RECURSIVE TypeValidate(_, _, _)
RECURSIVE CWrapper(_, _, _)
RECURSIVE CValidateRun(_, _, _)
RECURSIVE CInitRun(_, _, _, _)

\* the outcome of a call of a field: the exception and the checks executed
WOut(exc, lg) == [exc |-> exc, log |-> lg]

\* attr(value) for the entry `name` of the mapping: a declared field is called,
\* any other name is only stored
CFieldCall(c, name, data) ==
  IF CDeclares(c, name) THEN CWrapper(c, CDeclOf(c, name), data) ELSE WOut(CNoExc, <<>>)

\* the checks lg were executed before those of the outcome out
After(lg, out) == [out EXCEPT !.log = lg \o out.log]

\* __init__ after the call w of the field of argument i: a ValidationError
\* leaves __init__, otherwise the next argument is processed
CInitNext(c, kwargs, stored, i, w) ==
  IF w.exc # CNoExc THEN [exc |-> w.exc, data |-> stored, log |-> w.log]
  ELSE After(w.log, CInitRun(c, kwargs, stored, i + 1))

\* __init__ once the value of argument i is in self._data
CInitStored(c, kwargs, stored, i) ==
  CInitNext(c, kwargs, stored, i, CFieldCall(c, kwargs[i].k, stored))

\* ValidatedModel.__init__(**kwargs), from position i of the keyword arguments:
\* store the value, then call the field (the wrapper validates the stored value)
CInitRun(c, kwargs, data, i) ==
  IF i > Len(kwargs) THEN [exc |-> CNoExc, data |-> data, log |-> <<>>]
  ELSE CInitStored(c, kwargs, ODPut(data, kwargs[i].k, kwargs[i].v), i)

\* validate() after the call w of the field at position i of self._data: a
\* ValidationError is re-raised whatever raise_exception is
CValidateNext(c, data, i, w) ==
  IF w.exc # CNoExc THEN w ELSE After(w.log, CValidateRun(c, data, i + 1))

\* ValidatedModel.validate(), from position i of self._data: every declared
\* field is called, and nothing is ever added to the result
CValidateRun(c, data, i) ==
  IF i > Len(data) THEN WOut(CNoExc, <<>>)
  ELSE CValidateNext(c, data, i, CFieldCall(c, data[i].k, data))

\* the end of __init__: validate(raise_exception=True) when the loop over the
\* arguments raised nothing
CInitDone(init, v) == [exc |-> v.exc, data |-> init.data, log |-> init.log \o v.log]

CInitValidate(c, init) ==
  IF init.exc # CNoExc THEN init ELSE CInitDone(init, CValidateRun(c, init.data, 1))

\* cls(**kwargs): the exception raised, self._data and the checks executed
CConstructRun(c, kwargs) == CInitValidate(c, CInitRun(c, kwargs, <<>>, 1))

\* the outcome of __init__ with positional arguments: the exception raised,
\* and what the instance holds ("hollow": no self._data was created)
ArgsOut(exc, lg) ==
  [exc |-> exc, data |-> <<>>, log |-> lg,
   alive |-> IF exc = CNoExc THEN "hollow" ELSE "dead"]

\* "self = self.from_dict(args[0]); return": the instance made from the dict
\* is bound to the local name only, and __init__ returns
CFromArgs(made) == ArgsOut(made.exc, made.log)

\* A variant of __init__ that processes the keyword arguments before it
\* looks at the positional ones
CArgsRunLate(c, args, kwargs) ==
  IF CConstructRun(c, kwargs).exc # CNoExc THEN CFromArgs(CConstructRun(c, kwargs))
  ELSE ArgsOut(CExc("ValueError", "", "ArgsAndKwargs"), CConstructRun(c, kwargs).log)

\* cls(*args, **kwargs) with len(args) > 0 (__init__, lines 246-261)
CArgsRun(c, args, kwargs) ==
  IF Len(kwargs) > 0 THEN ArgsOut(CExc("ValueError", "", "ArgsAndKwargs"), <<>>)
  ELSE IF Len(args) > 1 THEN ArgsOut(CExc("ValueError", "", "OneArgument"), <<>>)
  ELSE IF args[1].t # "dict" THEN ArgsOut(CExc("ValueError", "", "NotADict"), <<>>)
  ELSE CFromArgs(CConstructRun(c, args[1].d))

\* mapped_item of item i of a List[Model] (validate, lines 169-181): the
\* instance itself, or the instance made from a dict or a JSON string
MapItem(item, ty) ==
  IF IsOfType(item, ty) THEN [exc |-> CNoExc, data |-> item.d, log |-> <<>>]
  ELSE IF item.t = "dict" THEN CConstructRun(ty.name, item.d)
  ELSE IF item.t = "str"
    THEN [exc |-> CExc("JSONDecodeError", "", "Decode"), data |-> <<>>, log |-> <<>>]
  ELSE [exc |-> CExc("ValueError", "", "UnexpectedItem"), data |-> <<>>, log |-> <<>>]

\* mapped_item.validate(raise_exception=False): what it raises
ValidateMapped(ty, mapped) ==
  IF mapped.exc # CNoExc THEN mapped.exc
  ELSE CValidateRun(ty.name, mapped.data, 1).exc

\* the nested-model step for an item of a List[Model]
NestedItem(item, ty) ==
  IF IsModelClass(ty) THEN ValidateMapped(ty, MapItem(item, ty)) ELSE CNoExc

RECURSIVE ListItems(_, _, _, _, _)

\* the loop over the items after the nested-model step of item i
ListNext(items, ty, f, i, errs, nested) ==
  IF nested # CNoExc THEN TRaise(nested) ELSE ListItems(items, ty, f, i + 1, errs)

\* the loop over the items of a list value, from position i: an error for an
\* item of another type, then the nested-model step
ListItems(items, ty, f, i, errs) ==
  IF i > Len(items) THEN TErrs(errs)
  ELSE ListNext(items, ty, f, i,
                IF ~IsOfType(items[i], ty)
                THEN Append(errs, Error("ItemType", f, i - 1)) ELSE errs,
                NestedItem(items[i], ty))

\* A variant of the item loop that stops at the first item that does not match
ItemErrorsFirst(items, types, kind, f) ==
  LET bad == {i \in DOMAIN items : types[i].k # "any" /\ ~IsOfType(items[i], types[i])}
  IN IF bad = {} THEN <<>>
     ELSE <<Error(kind, f, (CHOOSE i \in bad : \A j \in bad : i <= j) - 1)>>

\* the errors of the items (of a set or dict) or positions (of a tuple) that do
\* not match the type expected at their position
ItemErrors(items, types, kind, f) ==
  LET bad == {i \in DOMAIN items : types[i].k # "any" /\ ~IsOfType(items[i], types[i])}
      RECURSIVE Collect(_)
      Collect(i) == IF i > Len(items) THEN <<>>
                    ELSE (IF i \in bad THEN <<Error(kind, f, i - 1)>> ELSE <<>>)
                         \o Collect(i + 1)
  IN Collect(1)

RECURSIVE UnionAlts(_, _, _, _)

\* A variant of the Union loop in which every alternative has to match
UnionNextAll(alts, value, f, i, r) ==
  IF r.exc # CNoExc THEN r
  ELSE IF r.errors # <<>> THEN TErrs(<<Error("UnionMismatch", f, -1)>>)
  ELSE IF i = Len(alts) THEN TOk
  ELSE UnionAlts(alts, value, f, i + 1)

\* the Union loop after the result r of alternative i
UnionNext(alts, value, f, i, r) ==
  IF r.exc # CNoExc THEN r
  ELSE IF r.errors = <<>> THEN TOk
  ELSE UnionAlts(alts, value, f, i + 1)

\* the Union branch: the first alternative that validates (or raises) decides
UnionAlts(alts, value, f, i) ==
  IF i > Len(alts) THEN TErrs(<<Error("UnionMismatch", f, -1)>>)
  ELSE IF alts[i] = TNoneType THEN UnionAlts(alts, value, f, i + 1)
  ELSE UnionNext(alts, value, f, i, TypeValidate(alts[i], value, f))

\* TypeValidator(expected_type).validate(func, value, field_name)
TypeValidate(ty, value, f) ==
  IF value = None THEN TOk
  ELSE
    CASE ty.k = "any" -> TOk
      [] ty.k = "union" -> UnionAlts(ty.args, value, f, 1)
      [] ty.k = "list" ->
           IF value.t # "list" THEN TErrs(<<Error("TypeMismatch", f, -1)>>)
           ELSE IF ty.args[1].k = "any" THEN TOk
           ELSE ListItems(value.l, ty.args[1], f, 1, <<>>)
      [] ty.k = "dict" ->
           IF value.t # "dict" THEN TErrs(<<Error("TypeMismatch", f, -1)>>)
           ELSE
             LET keys == IF ty.args[1].k = "any" THEN <<>>
                         ELSE ItemErrors([i \in DOMAIN value.d |-> S(<<value.d[i].k>>)],
                                         [i \in DOMAIN value.d |-> ty.args[1]], "DictKey", f)
                 vals == IF ty.args[2].k = "any" THEN <<>>
                         ELSE ItemErrors([i \in DOMAIN value.d |-> value.d[i].v],
                                         [i \in DOMAIN value.d |-> ty.args[2]], "DictValue", f)
             IN TErrs(keys \o vals)
      [] ty.k = "tuple" ->
           IF value.t # "tuple" THEN TErrs(<<Error("TypeMismatch", f, -1)>>)
           ELSE IF ty.args = <<>> THEN TOk
           ELSE IF Len(value.l) # Len(ty.args) THEN TErrs(<<Error("Arity", f, -1)>>)
           ELSE TErrs(ItemErrors(value.l, ty.args, "TupleItem", f))
      [] ty.k = "set" ->
           IF value.t # "set" /\ value.t # "list" THEN TErrs(<<Error("TypeMismatch", f, -1)>>)
           ELSE TErrs(ItemErrors(value.l, [i \in DOMAIN value.l |-> ty.args[1]], "SetItem", f))
      [] OTHER ->
           IF ~IsOfType(value, ty) THEN TErrs(<<Error("TypeMismatch", f, -1)>>) ELSE TOk

\* "if not result.is_valid: raise ValidationError(result.errors[0].message, ...)"
RaiseFirst(r, f) ==
  IF r.exc # CNoExc THEN r.exc
  ELSE IF r.errors # <<>> THEN CExc("ValidationError", f, r.errors[1].kind)
  ELSE CNoExc

\* type_check(value, expected_type, field_name): raises the first error
TypeCheck(value, ty, f) == RaiseFirst(TypeValidate(ty, value, f), f)

\* OptionalValidator().validate: raises when the value is None (is_optional
\* is False in optional_check); ValidationError.field is the caller's name
OptionalCheck(value) ==
  IF value = None THEN CExc("ValidationError", "wrapper", "NoneNotAllowed") ELSE CNoExc

\* isinstance(value, (int, float))
IsNumber(v) == v.t \in {"int", "float"}

\* A variant of MinValidator.validate that treats every bound as exclusive
MinValidateExclusive(v, min_value, inclusive) ==
  IF v = None THEN ""
  ELSE IF ~IsNumber(v) THEN "NotANumber"
  ELSE IF v.n <= min_value THEN "BelowMin"
  ELSE ""

\* MinValidator(min_value, inclusive).validate: the error it adds, if any
MinValidate(v, min_value, inclusive) ==
  IF v = None THEN ""
  ELSE IF ~IsNumber(v) THEN "NotANumber"
  ELSE IF inclusive /\ v.n < min_value THEN "BelowMin"
  ELSE IF ~inclusive /\ v.n <= min_value THEN "BelowMin"
  ELSE ""

\* MaxValidator(max_value, inclusive).validate
MaxValidate(v, max_value, inclusive) ==
  IF v = None THEN ""
  ELSE IF ~IsNumber(v) THEN "NotANumber"
  ELSE IF inclusive /\ v.n > max_value THEN "AboveMax"
  ELSE IF ~inclusive /\ v.n >= max_value THEN "AboveMax"
  ELSE ""

\* RangeValidator(min_value, max_value, min_inclusive, max_inclusive).validate:
\* the errors it adds
RangeValidate(v, min_value, max_value, min_inclusive, max_inclusive) ==
  IF v = None THEN <<>>
  ELSE IF ~IsNumber(v) THEN <<"NotANumber">>
  ELSE (IF (min_inclusive /\ v.n >= min_value) \/ (~min_inclusive /\ v.n > min_value)
        THEN <<>> ELSE <<"BelowMin">>)
       \o (IF (max_inclusive /\ v.n <= max_value) \/ (~max_inclusive /\ v.n < max_value)
           THEN <<>> ELSE <<"AboveMax">>)

\* min_value_check / max_value_check called in the body of field f: the value
\* is read from self._data of the calling frame
BodyCheck(chk, f, data) ==
  IF ~ODHas(data, f) THEN CExc("KeyError", "", "KeyError")
  ELSE IF ODGet(data, f) = None THEN CExc("ValidationError", "", "ValueIsNone")
  ELSE
    LET err == IF chk.chk = "min" THEN MinValidate(ODGet(data, f), chk.arg, chk.incl)
               ELSE MaxValidate(ODGet(data, f), chk.arg, chk.incl)
    IN IF err # "" THEN CExc("ValidationError", f, err) ELSE CNoExc

\* func(self): the checks of the body from position i on, up to the first that raises
RECURSIVE CBody(_, _, _, _, _)
CBody(body, f, data, i, lg) ==
  IF i > Len(body) THEN WOut(CNoExc, lg)
  ELSE
    LET e == BodyCheck(body[i], f, data)
        logged == Append(lg, Event(f, "body", body[i].chk))
    IN IF e # CNoExc THEN WOut(e, logged) ELSE CBody(body, f, data, i + 1, logged)

\* A variant of the wrapper that runs the body whatever type_check and
\* optional_check say
CAfterTypeAll(decl, data, tc, b) ==
  IF tc # CNoExc THEN WOut(tc, b.log)
  ELSE IF OptionalCheck(ODGet(data, decl.name)) # CNoExc
    THEN WOut(OptionalCheck(ODGet(data, decl.name)), b.log)
  ELSE b

CWrapperAll(c, decl, data) ==
  CAfterTypeAll(decl, data,
                TypeCheck(ODGet(data, decl.name), decl.ann, decl.name),
                CBody(decl.body, decl.name, data, 1,
                      <<Event(decl.name, "type", "type"),
                        Event(decl.name, "none", "none")>>))

\* the wrapper after type_check raised tc or returned: optional_check unless
\* the field is optional, then the body
CAfterType(decl, data, tc) ==
  IF tc # CNoExc THEN WOut(tc, <<Event(decl.name, "type", "type")>>)
  ELSE IF CIsOptional(decl) \/ IsOptionalField(decl.ann)
    THEN CBody(decl.body, decl.name, data, 1, <<Event(decl.name, "type", "type")>>)
  ELSE IF OptionalCheck(ODGet(data, decl.name)) # CNoExc
    THEN WOut(OptionalCheck(ODGet(data, decl.name)),
              <<Event(decl.name, "type", "type"), Event(decl.name, "none", "none")>>)
  ELSE CBody(decl.body, decl.name, data, 1,
             <<Event(decl.name, "type", "type"), Event(decl.name, "none", "none")>>)

\* validate.decorator.wrapper(self, value): the value is read from self._data,
\* then type_check, optional_check (unless the field is optional) and the body
CWrapper(c, decl, data) ==
  CAfterType(decl, data, TypeCheck(ODGet(data, decl.name), decl.ann, decl.name))

\* ValidatedModel.to_dict: nested models, and the models inside a list, dict,
\* tuple or set, are converted; everything else is copied
RECURSIVE ToDict(_)
ItemToDict(v) == IF v.t = "model" THEN PyDict(ToDict(v.d)) ELSE v

ToDict(data) ==
  [i \in DOMAIN data |->
     LET v == data[i].v
     IN Entry(data[i].k,
          CASE v.t = "model" -> PyDict(ToDict(v.d))
            [] v.t \in {"list", "tuple", "set"} ->
                 [v EXCEPT !.l = [j \in DOMAIN v.l |-> ItemToDict(v.l[j])]]
            [] v.t = "dict" ->
                 [v EXCEPT !.d = [j \in DOMAIN v.d |->
                                    Entry(v.d[j].k, ItemToDict(v.d[j].v))]]
            [] OTHER -> v)]

\* == of two Python values: dicts compare by key, whatever the insertion order
RECURSIVE PyEq(_, _)
PyEq(a, b) ==
  IF a.t # b.t THEN FALSE
  ELSE IF a.t = "dict" THEN
    /\ {a.d[i].k : i \in DOMAIN a.d} = {b.d[i].k : i \in DOMAIN b.d}
    /\ \A i \in DOMAIN a.d : PyEq(a.d[i].v, ODGet(b.d, a.d[i].k))
  ELSE IF a.t \in {"list", "tuple"} THEN
    /\ Len(a.l) = Len(b.l)
    /\ \A i \in DOMAIN a.l : PyEq(a.l[i], b.l[i])
  ELSE a = b

\* ValidatedModel.__eq__: self.to_dict() == other.to_dict()
ModelEq(data1, data2) == PyEq(PyDict(ToDict(data1)), PyDict(ToDict(data2)))

\* the outcome of a round trip that made the instance `made` from x
RoundTripOf(data, made) ==
  [exc |-> made.exc, equal |-> made.exc = CNoExc /\ ModelEq(made.data, data)]

\* cls.from_dict(x.to_dict()) and its comparison with x
RoundTrip(c, data) == RoundTripOf(data, CConstructRun(c, ToDict(data)))

\* ------------------------------------------------------------------------
\* core.py: inputs
\* ------------------------------------------------------------------------
\* keyword arguments: the declared fields, each at most once, in any order
CKwargsOf(c, vals) ==
  LET names == CFieldNames(c)
  IN {<<>>}
     \cup UNION {{<<Entry(f, v)>> : v \in vals[f]} : f \in names}
     \cup UNION {UNION {{<<Entry(f, v), Entry(g, w)>> : v \in vals[f], w \in vals[g]} :
                          g \in names \ {f}} : f \in names}

\* the instances of a class whose construction succeeds
CInstances(c, vals) ==
  {PyModel(c, kw) : kw \in {k \in CKwargsOf(c, vals) : CConstructRun(c, k).exc = CNoExc}}

FloatInputs == {None, F(NonNegative - 1), F(NonNegative), F(MaxOne), F(MaxOne + 1), S(<<"a">>)}

PlainInputs == {None, S(<<"a">>), I(1)}

\* the values a caller passes for field f of class c
CInputs(c, f) ==
  CASE c = "FloatValidatorModel" -> FloatInputs
    [] c = "User" -> PlainInputs
    [] c = "Address" -> PlainInputs
    [] c = "UserProfile" /\ f = "user" ->
         {None, PyDict(<<Entry("username", S(<<"a">>))>>), I(1), S(<<"a">>)}
           \cup CInstances("User", [g \in CFieldNames("User") |-> PlainInputs])
    [] OTHER ->
         {None, PyList(<<>>), PyList(<<I(1)>>),
          PyList(<<PyDict(<<Entry("street", S(<<"a">>)), Entry("city", S(<<"a">>))>>)>>),
          PyList(<<PyDict(<<Entry("street", I(1))>>)>>),
          PyList(<<PyModel("Address", <<Entry("street", S(<<"a">>))>>),
                   PyDict(<<Entry("street", S(<<"a">>)), Entry("city", I(1))>>)>>),
          PyList(<<PyDict(<<Entry("street", S(<<"a">>)), Entry("city", I(1))>>),
                   PyModel("Address", <<Entry("street", S(<<"a">>))>>)>>),
          PyList(<<PyModel("Address", <<Entry("street", S(<<"a">>))>>), I(1)>>),
          PyList(<<PyModel("Address", <<Entry("street", S(<<"a">>))>>), S(<<"a">>)>>)}
           \cup {PyList(<<a>>) : a \in CInstances("Address", [g \in CFieldNames("Address") |-> PlainInputs])}

CKwargs(c) == CKwargsOf(c, [f \in CFieldNames(c) |-> CInputs(c, f)])

\* keyword arguments for a call that also has positional arguments
FewKwargs(c) == {kw \in CKwargs(c) : Len(kw) <= 1}

\* positional arguments: a dict, something else, or two dicts
CArgs(c) ==
  {<<PyDict(kw)>> : kw \in FewKwargs(c)}
    \cup {<<I(1)>>, <<PyDict(<<>>), PyDict(<<>>)>>}

\* the inputs of every class, computed once
AllInputs == [c \in CClasses |-> [f \in CFieldNames(c) |-> CInputs(c, f)]]

AllKwargs == [c \in CClasses |-> CKwargs(c)]

AllArgs == [c \in CClasses |-> CArgs(c)]

AllFewKwargs == [c \in CClasses |-> FewKwargs(c)]

\* ------------------------------------------------------------------------
\* core.py: state of one ValidatedModel instance
\* ------------------------------------------------------------------------
VARIABLES
  ccls,     \* the model class the instance belongs to
  data,     \* self._data, in insertion order
  calive,   \* "new": not constructed, "live": constructed, "dead": __init__
            \* raised, "hollow": __init__ returned without creating self._data
  clast,    \* the last call: operation, argument, result, exception
  cprev,    \* the call before the last one: its operation, and whether it was
            \* validate(raise_exception=False)
  clog,     \* the checks the last call executed, in execution order
  cops      \* number of calls made on the instance after construction

cvars == <<ccls, data, calive, clast, cprev, clog, cops>>

\* ------------------------------------------------------------------------
\* a validator applied on its own: Validator.validate(func, value, field_name)
\* ------------------------------------------------------------------------
VARIABLES
  pcall     \* the last application: validator, its parameters, value, errors

pvars == <<pcall>>

allvars == <<vvars, cvars, pvars>>

PCall(fn, params, value, res) ==
  [fn |-> fn, params |-> params, value |-> value, res |-> res]

\* no validator applied yet: each behaviour applies one validator once
PNoCall == pcall = PCall("none", <<>>, None, TOk)

\* a call of the core engine: arg is the keyword arguments, the field name or
\* raise_exception; ret the value returned; equal the outcome of ==
CCall(op, arg, ret, exc, equal) ==
  [op |-> op, arg |-> arg, ret |-> ret, exc |-> exc, equal |-> equal]

\* what is remembered of a call once another one has been made
Earlier(call) ==
  [op |-> call.op, nonraising |-> call.op = "validate" /\ call.arg = FALSE]

\* the ValidationResult validate() returns: nothing is ever added to it
EmptyResult == [is_valid |-> TRUE, errors |-> <<>>]

\* ------------------------------------------------------------------------
\* validator.py: operations
\* ------------------------------------------------------------------------
\* no instance yet, of either engine
VNoInstance ==
  /\ fields = EmptyDict
  /\ cached_values = EmptyDict
  /\ wrapped_values = EmptyDict
  /\ inst_dict = EmptyDict
  /\ alive = "new"
  /\ last = Call("none", "", None, None, NoExc)
  /\ log = <<>>
  /\ ops = 0

CNoInstance ==
  /\ data = <<>>
  /\ calive = "new"
  /\ clast = CCall("none", <<>>, None, CNoExc, FALSE)
  /\ cprev = Earlier(CCall("none", <<>>, None, CNoExc, FALSE))
  /\ clog = <<>>
  /\ cops = 0

\* a program of the validator.py engine: a model class and the registry of
\* the validator classes it has imported
VInit ==
  /\ cls \in VClasses
  /\ registry \in {r \in Registries : VAttachedKinds(cls) \subseteq KindsOf(r)}
  /\ VNoInstance
  /\ ccls = "User"
  /\ CNoInstance
  /\ PNoCall

\* ValidatedModel.__init__(**kwargs): store the arguments, then self.validate()
VConstruct(kwargs) ==
  /\ alive = "new"
  /\ LET st == VRun(cls, registry, kwargs, EmptyDict, EmptyDict, EmptyDict)
     IN /\ fields' = kwargs
        /\ cached_values' = st.cached
        /\ wrapped_values' = st.wrapped
        /\ inst_dict' = st.inst
        /\ log' = st.log
        /\ alive' = IF st.exc = NoExc THEN "live" ELSE "dead"
        /\ last' = Call("construct", "", None, None, st.exc)
  /\ UNCHANGED <<cls, registry, ops>>
  /\ UNCHANGED <<cvars, pvars>>

\* model.validate() on a constructed instance
VValidate ==
  /\ alive = "live"
  /\ ops < MaxOps
  /\ LET st == VRun(cls, registry, fields, cached_values, wrapped_values, inst_dict)
     IN /\ cached_values' = st.cached
        /\ wrapped_values' = st.wrapped
        /\ inst_dict' = st.inst
        /\ log' = st.log
        /\ last' = Call("validate", "", None, None, st.exc)
  /\ ops' = ops + 1
  /\ UNCHANGED <<cls, registry, fields, alive>>
  /\ UNCHANGED <<cvars, pvars>>

\* model.field(): __getattribute__, then a call without arguments
\* (CallableValue.__call__ returns its value; the descriptor's bound method
\* runs the body on None without caching; a raw attribute is not callable)
VGet(f) ==
  /\ alive = "live"
  /\ ops < MaxOps
  /\ LET ga == VGetAttribute(wrapped_values, cached_values, inst_dict, f)
         b == VBody(VClass(cls)[f].body, None)
     IN /\ wrapped_values' = ga.wrapped
        /\ last' =
             CASE ga.how = "wrapped" -> Call("get", f, None, ga.value, NoExc)
               [] ga.how = "raw" -> Call("get", f, None, None, Exc("TypeError", ""))
               [] OTHER -> IF b.raised # "none"
                           THEN Call("get", f, None, None, Exc(b.raised, ""))
                           ELSE Call("get", f, None, b.result, NoExc)
  /\ log' = <<>>
  /\ ops' = ops + 1
  /\ UNCHANGED <<cls, registry, fields, cached_values, inst_dict, alive>>
  /\ UNCHANGED <<cvars, pvars>>

\* A variant of model.field(v) that caches the new value before the field
\* body has accepted it
VSetEager(f, v) ==
  /\ alive = "live"
  /\ ops < MaxOps
  /\ LET ga == VGetAttribute(wrapped_values, cached_values, inst_dict, f)
         b == VBody(VClass(cls)[f].body, v)
     IN CASE ga.how = "raw" ->
               /\ last' = Call("set", f, v, None, Exc("TypeError", ""))
               /\ UNCHANGED <<cached_values, wrapped_values>>
          [] ga.how # "raw" /\ b.raised # "none" ->
               /\ last' = Call("set", f, v, None, Exc(b.raised, ""))
               /\ wrapped_values' = ga.wrapped
               /\ cached_values' = Put(cached_values, f, v)
          [] OTHER ->
               /\ last' = Call("set", f, v, b.result, NoExc)
               /\ cached_values' = Put(cached_values, f, b.result)
               /\ wrapped_values' = IF ga.how = "wrapped"
                                    THEN Put(ga.wrapped, f, b.result)
                                    ELSE ga.wrapped
  /\ log' = <<Event(f, "body", "body")>>
  /\ ops' = ops + 1
  /\ UNCHANGED <<cls, registry, fields, inst_dict, alive>>
  /\ UNCHANGED <<cvars, pvars>>

\* model.field(v): __getattribute__, then a call with the new value.
\* CallableValue.__call__ and the descriptor's bound method both call the
\* class attribute, which runs the field body alone, and cache its result.
VSet(f, v) ==
  /\ alive = "live"
  /\ ops < MaxOps
  /\ LET ga == VGetAttribute(wrapped_values, cached_values, inst_dict, f)
         b == VBody(VClass(cls)[f].body, v)
     IN CASE ga.how = "raw" ->
               /\ last' = Call("set", f, v, None, Exc("TypeError", ""))
               /\ UNCHANGED <<cached_values, wrapped_values>>
          [] ga.how # "raw" /\ b.raised # "none" ->
               /\ last' = Call("set", f, v, None, Exc(b.raised, ""))
               /\ wrapped_values' = ga.wrapped
               /\ UNCHANGED cached_values
          [] OTHER ->
               /\ last' = Call("set", f, v, b.result, NoExc)
               /\ cached_values' = Put(cached_values, f, b.result)
               /\ wrapped_values' = IF ga.how = "wrapped"
                                    THEN Put(ga.wrapped, f, b.result)
                                    ELSE ga.wrapped
  /\ log' = <<Event(f, "body", "body")>>
  /\ ops' = ops + 1
  /\ UNCHANGED <<cls, registry, fields, inst_dict, alive>>
  /\ UNCHANGED <<cvars, pvars>>

VNext ==
  \/ \E kwargs \in VKwargs(cls) : VConstruct(kwargs)
  \/ VValidate
  \/ \E f \in VFieldSet(cls) : VGet(f)
  \/ \E f \in VFieldSet(cls), v \in VInputs(cls) : VSet(f, v)

SpecV == VInit /\ [][VNext]_allvars

\* ------------------------------------------------------------------------
\* core.py: operations
\* ------------------------------------------------------------------------
\* a program of the core.py engine: a model class
CInit ==
  /\ ccls \in CClasses
  /\ CNoInstance
  /\ cls = "Number"
  /\ registry = <<"minnumber", "maxnumber">>
  /\ VNoInstance
  /\ PNoCall

\* the instance after __init__ ended with the outcome made
CConstructed(kwargs, made) ==
  /\ data' = made.data
  /\ calive' = IF made.exc = CNoExc THEN "live" ELSE "dead"
  /\ clast' = CCall("construct", kwargs, None, made.exc, FALSE)
  /\ cprev' = Earlier(clast)
  /\ clog' = made.log

\* cls(**kwargs)
CConstruct(kwargs) ==
  /\ calive = "new"
  /\ CConstructed(kwargs, CConstructRun(ccls, kwargs))
  /\ UNCHANGED <<ccls, cops>>
  /\ UNCHANGED <<vvars, pvars>>

\* the instance after __init__ with positional arguments ended
CArgsConstructed(args, kwargs, made) ==
  /\ data' = made.data
  /\ calive' = made.alive
  /\ clast' = CCall("construct_args", [args |-> args, kwargs |-> kwargs],
                    None, made.exc, FALSE)
  /\ cprev' = Earlier(clast)
  /\ clog' = made.log

\* cls(*args, **kwargs) with at least one positional argument
CConstructArgs(args, kwargs) ==
  /\ calive = "new"
  /\ CArgsConstructed(args, kwargs, CArgsRun(ccls, args, kwargs))
  /\ UNCHANGED <<ccls, cops>>
  /\ UNCHANGED <<vvars, pvars>>

\* a call on an instance without self._data: validate(), a field's wrapper
\* and to_dict() all read self._data first
CHollowCall(op, arg) ==
  /\ calive = "hollow"
  /\ cops < MaxCalls
  /\ clast' = CCall(op, arg, None, CExc("AttributeError", "", "_data"), FALSE)
  /\ cprev' = Earlier(clast)
  /\ clog' = <<>>
  /\ cops' = cops + 1
  /\ UNCHANGED <<ccls, data, calive>>
  /\ UNCHANGED <<vvars, pvars>>

\* model._data[f] = v: the caller writes the mapping directly
CPoke(f, v) ==
  /\ calive = "live"
  /\ cops < MaxCalls
  /\ data' = ODPut(data, f, v)
  /\ clast' = CCall("poke", f, None, CNoExc, FALSE)
  /\ cprev' = Earlier(clast)
  /\ clog' = <<>>
  /\ cops' = cops + 1
  /\ UNCHANGED <<ccls, calive>>
  /\ UNCHANGED <<vvars, pvars>>

\* a call that ended with the outcome out: the result is returned unless it raised
CReturned(op, arg, ret, out) ==
  /\ clast' = CCall(op, arg, IF out.exc = CNoExc THEN ret ELSE None, out.exc, FALSE)
  /\ cprev' = Earlier(clast)
  /\ clog' = out.log

\* A variant of validate that consumes the mapping it walks
CValidateConsuming(raise_exception) ==
  /\ calive = "live"
  /\ cops < MaxCalls
  /\ CReturned("validate", raise_exception, EmptyResult, CValidateRun(ccls, data, 1))
  /\ data' = <<>>
  /\ cops' = cops + 1
  /\ UNCHANGED <<ccls, calive>>
  /\ UNCHANGED <<vvars, pvars>>

\* model.validate(raise_exception)
CValidate(raise_exception) ==
  /\ calive = "live"
  /\ cops < MaxCalls
  /\ CReturned("validate", raise_exception, EmptyResult, CValidateRun(ccls, data, 1))
  /\ cops' = cops + 1
  /\ UNCHANGED <<ccls, data, calive>>
  /\ UNCHANGED <<vvars, pvars>>

\* model.f(): the wrapper validates the stored value and returns it
CGet(f) ==
  /\ calive = "live"
  /\ cops < MaxCalls
  /\ CReturned("get", f, ODGet(data, f), CWrapper(ccls, CDeclOf(ccls, f), data))
  /\ cops' = cops + 1
  /\ UNCHANGED <<ccls, data, calive>>
  /\ UNCHANGED <<vvars, pvars>>

\* the comparison made after a round trip with the outcome rt
CCompared(arg, rt) ==
  /\ clast' = CCall("roundtrip", arg, None, rt.exc, rt.equal)
  /\ cprev' = Earlier(clast)

\* cls.from_dict(model.to_dict()) == model
CRoundTrip ==
  /\ calive = "live"
  /\ cops < MaxCalls
  /\ CCompared(PyDict(ToDict(data)), RoundTrip(ccls, data))
  /\ clog' = <<>>
  /\ cops' = cops + 1
  /\ UNCHANGED <<ccls, data, calive>>
  /\ UNCHANGED <<vvars, pvars>>

CNext ==
  \/ calive = "new" /\ \E kwargs \in AllKwargs[ccls] : CConstruct(kwargs)
  \/ calive = "new" /\ \E args \in AllArgs[ccls] : \E kwargs \in AllFewKwargs[ccls] :
                          CConstructArgs(args, kwargs)
  \/ calive = "live" /\ \E f \in CFieldNames(ccls) : \E v \in AllInputs[ccls][f] : CPoke(f, v)
  \/ \E r \in BOOLEAN : CHollowCall("validate", r)
  \/ \E f \in CFieldNames(ccls) : CHollowCall("get", f)
  \/ CHollowCall("roundtrip", None)
  \/ \E r \in BOOLEAN : CValidate(r)
  \/ \E f \in CFieldNames(ccls) : CGet(f)
  \/ CRoundTrip

SpecC == CInit /\ [][CNext]_allvars

\* ------------------------------------------------------------------------
\* validators applied on their own
\* ------------------------------------------------------------------------
\* numbers range over -MaxNum .. MaxNum
MaxNum == 2

Nums == (0 - MaxNum) .. MaxNum

\* the bounds given to a number validator
NumBounds == (1 - MaxNum) .. (MaxNum - 1)

\* the values a number validator is applied to
NumValues == {I(k) : k \in Nums} \cup {F(k) : k \in Nums} \cup {None, S(<<"a">>)}

\* the errors of a ValidationResult holding at most the error `kind`
ErrorKinds(kind) == IF kind = "" THEN <<>> ELSE <<kind>>

\* MinValidator(b, inclusive).validate(func, v, field_name)
PMin(b, inclusive, v) ==
  /\ PNoCall
  /\ pcall' = PCall("min", <<b, inclusive>>, v, ErrorKinds(MinValidate(v, b, inclusive)))
  /\ UNCHANGED <<vvars, cvars>>

\* MaxValidator(b, inclusive).validate(func, v, field_name)
PMax(b, inclusive, v) ==
  /\ PNoCall
  /\ pcall' = PCall("max", <<b, inclusive>>, v, ErrorKinds(MaxValidate(v, b, inclusive)))
  /\ UNCHANGED <<vvars, cvars>>

\* RangeValidator(lo, hi, lo_inclusive, hi_inclusive).validate(func, v, field_name)
PRange(lo, hi, lo_inclusive, hi_inclusive, v) ==
  /\ PNoCall
  /\ pcall' = PCall("range", <<lo, hi, lo_inclusive, hi_inclusive>>, v,
                    RangeValidate(v, lo, hi, lo_inclusive, hi_inclusive))
  /\ UNCHANGED <<vvars, cvars>>

\* containers hold at most MaxItems items
MaxItems == 3

\* the sequences of at most n items of E
ItemSeqs(E, n) == UNION {[1..k -> E] : k \in 0..n}

\* strings hold at most MaxChars characters
MaxChars == 3

\* the strings a one-of validator is applied to
EnumStrings == {S(q) : q \in ItemSeqs({"a", "A", "b"}, MaxChars)}

\* the values a one-of validator is applied to
EnumValues == EnumStrings \cup {None, I(1), F(1)}

\* EnumValidator.__init__: allowed_values is Any (the default) or list(allowed_values)
EnumAny == [any |-> TRUE, values |-> <<>>]
EnumList(values) == [any |-> FALSE, values |-> values]

\* the allowed_values given to a one-of validator
EnumAllowed ==
  {EnumAny} \cup
  {EnumList(q) : q \in ItemSeqs({S(<<"a">>), S(<<"A", "b">>), S(<<"b">>), I(1)}, 2)}

\* a == b of two Python values that are None, numbers or strings
EnumEq(a, b) == IF IsNumber(a) /\ IsNumber(b) THEN a.n = b.n ELSE a = b

\* the ValidationError of EnumValidator.validate: its message lists
\* ", ".join(repr(v) for v in self.allowed_values), followed by
\* "(case-insensitive)" on the case-insensitive branch
EnumError(allowed, insensitive) ==
  [kind |-> "NotAllowed", listed |-> allowed.values, insensitive |-> insensitive]

\* A variant of EnumValidator.validate that never folds case
EnumValidateExact(allowed, case_sensitive, v) ==
  IF v = None \/ allowed.any THEN <<>>
  ELSE IF ~\E i \in DOMAIN allowed.values : EnumEq(v, allowed.values[i])
       THEN <<EnumError(allowed, FALSE)>>
       ELSE <<>>

\* EnumValidator(allowed_values, case_sensitive).validate: the errors it adds
EnumValidate(allowed, case_sensitive, v) ==
  IF v = None \/ allowed.any THEN <<>>
  ELSE IF ~case_sensitive /\ v.t = "str" THEN
    IF ~\E i \in DOMAIN allowed.values :
          allowed.values[i].t = "str" /\ Lower(allowed.values[i].s) = Lower(v.s)
    THEN <<EnumError(allowed, TRUE)>>
    ELSE <<>>
  ELSE IF ~\E i \in DOMAIN allowed.values : EnumEq(v, allowed.values[i])
       THEN <<EnumError(allowed, FALSE)>>
       ELSE <<>>

\* EnumValidator(allowed, case_sensitive).validate(func, v, field_name)
PEnum(allowed, case_sensitive, v) ==
  /\ PNoCall
  /\ pcall' = PCall("enum", <<allowed, case_sensitive>>, v,
                    EnumValidate(allowed, case_sensitive, v))
  /\ UNCHANGED <<vvars, cvars>>

\* the characters of the strings a string validator is applied to
StrChars == {"1", "-", "a", "A"}

\* the values a string validator is applied to
StrValues ==
  {S(q) : q \in ItemSeqs(StrChars, MaxChars)} \cup {None, I(1), F(1), PyList(<<S(<<"a">>)>>)}

\* substring in value, value.startswith(prefix), value.endswith(suffix)
Contains(sub, q) ==
  \E i \in 0..Len(q) : i + Len(sub) <= Len(q) /\ SubSeq(q, i + 1, i + Len(sub)) = sub
StartsWith(pre, q) == Len(pre) <= Len(q) /\ SubSeq(q, 1, Len(pre)) = pre
EndsWith(suf, q) == Len(suf) <= Len(q) /\ SubSeq(q, Len(q) - Len(suf) + 1, Len(q)) = suf

\* \d restricted to StrChars
Digit == {"1"}

\* a compiled pattern: one character class per position, and whether it ends
\* with $; SsnPattern is ^\d-\d$ (the shape of the SSN pattern of the tests),
\* DigitPattern is \d
RegEx(classes, anchored) == [classes |-> classes, anchored |-> anchored]
SsnPattern == RegEx(<<Digit, {"-"}, Digit>>, TRUE)
DigitPattern == RegEx(<<Digit>>, FALSE)

\* pattern.match(value): the pattern matches at the start of the string
PatternMatch(p, q) ==
  /\ Len(q) >= Len(p.classes)
  /\ \A i \in DOMAIN p.classes : q[i] \in p.classes[i]
  /\ p.anchored => Len(q) = Len(p.classes)

\* a string validator and its constructor arguments
StrV(kind, lo, hi, text, cs, pattern) ==
  [kind |-> kind, lo |-> lo, hi |-> hi, text |-> text, cs |-> cs, pattern |-> pattern]

\* the string validators applied
StrValidators ==
  {StrV("min_length", n, 0, <<>>, TRUE, DigitPattern) : n \in 0..MaxChars}
    \cup {StrV("max_length", 0, n, <<>>, TRUE, DigitPattern) : n \in 0..MaxChars}
    \cup {StrV("length_range", lo, hi, <<>>, TRUE, DigitPattern) : lo \in 0..MaxChars, hi \in 0..MaxChars}
    \cup {StrV("pattern", 0, 0, <<>>, TRUE, p) : p \in {SsnPattern, DigitPattern}}
    \cup {StrV(k, 0, 0, t, cs, DigitPattern) :
            k \in {"contains", "starts_with", "ends_with"}, t \in {<<"a">>, <<"A", "1">>},
            cs \in BOOLEAN}

\* A variant of MinLengthValidator.validate without the isinstance check
MinLengthValidateUnchecked(v, min_length) ==
  IF v = None THEN <<>>
  ELSE IF Len(v.s) < min_length THEN <<"TooShort">>
  ELSE <<>>

\* MinLengthValidator(min_length).validate: the errors it adds
MinLengthValidate(v, min_length) ==
  IF v = None THEN <<>>
  ELSE IF v.t # "str" THEN <<"NotAString">>
  ELSE IF Len(v.s) < min_length THEN <<"TooShort">>
  ELSE <<>>

\* MaxLengthValidator(max_length).validate
MaxLengthValidate(v, max_length) ==
  IF v = None THEN <<>>
  ELSE IF v.t # "str" THEN <<"NotAString">>
  ELSE IF Len(v.s) > max_length THEN <<"TooLong">>
  ELSE <<>>

\* LengthRangeValidator(min_length, max_length).validate
LengthRangeValidate(v, min_length, max_length) ==
  IF v = None THEN <<>>
  ELSE IF v.t # "str" THEN <<"NotAString">>
  ELSE IF Len(v.s) < min_length THEN <<"TooShort">>
  ELSE IF Len(v.s) > max_length THEN <<"TooLong">>
  ELSE <<>>

\* PatternValidator(pattern).validate
PatternValidate(v, pattern) ==
  IF v = None THEN <<>>
  ELSE IF v.t # "str" THEN <<"NotAString">>
  ELSE IF ~PatternMatch(pattern, v.s) THEN <<"NoMatch">>
  ELSE <<>>

\* ContainsValidator(substring, case_sensitive).validate
ContainsValidate(v, substring, case_sensitive) ==
  IF v = None THEN <<>>
  ELSE IF v.t # "str" THEN <<"NotAString">>
  ELSE IF case_sensitive /\ ~Contains(substring, v.s) THEN <<"NotContained">>
  ELSE IF ~case_sensitive /\ ~Contains(Lower(substring), Lower(v.s)) THEN <<"NotContained">>
  ELSE <<>>

\* StartsWithValidator(prefix, case_sensitive).validate
StartsWithValidate(v, prefix, case_sensitive) ==
  IF v = None THEN <<>>
  ELSE IF v.t # "str" THEN <<"NotAString">>
  ELSE IF case_sensitive /\ ~StartsWith(prefix, v.s) THEN <<"NoPrefix">>
  ELSE IF ~case_sensitive /\ ~StartsWith(Lower(prefix), Lower(v.s)) THEN <<"NoPrefix">>
  ELSE <<>>

\* EndsWithValidator(suffix, case_sensitive).validate
EndsWithValidate(v, suffix, case_sensitive) ==
  IF v = None THEN <<>>
  ELSE IF v.t # "str" THEN <<"NotAString">>
  ELSE IF case_sensitive /\ ~EndsWith(suffix, v.s) THEN <<"NoSuffix">>
  ELSE IF ~case_sensitive /\ ~EndsWith(Lower(suffix), Lower(v.s)) THEN <<"NoSuffix">>
  ELSE <<>>

\* validator.validate(func, v, field_name) of the string validator sv
StringValidate(sv, v) ==
  CASE sv.kind = "min_length" -> MinLengthValidate(v, sv.lo)
    [] sv.kind = "max_length" -> MaxLengthValidate(v, sv.hi)
    [] sv.kind = "length_range" -> LengthRangeValidate(v, sv.lo, sv.hi)
    [] sv.kind = "pattern" -> PatternValidate(v, sv.pattern)
    [] sv.kind = "contains" -> ContainsValidate(v, sv.text, sv.cs)
    [] sv.kind = "starts_with" -> StartsWithValidate(v, sv.text, sv.cs)
    [] sv.kind = "ends_with" -> EndsWithValidate(v, sv.text, sv.cs)

\* a string validator applied to v
PString(sv, v) ==
  /\ PNoCall
  /\ pcall' = PCall("string", <<sv>>, v, StringValidate(sv, v))
  /\ UNCHANGED <<vvars, cvars>>

\* PatternValidator(*args): __init__ takes the pattern alone
PatternValidatorNew(args) ==
  IF Len(args) # 1 THEN CExc("TypeError", "", "Arguments") ELSE CNoExc

\* the end of a ..._check helper once its validator is built (made) and has
\* run: it raises the first error of the result as a ValidationError
RaiseResult(made, errs, f) ==
  IF made # CNoExc THEN made
  ELSE IF errs # <<>> THEN CExc("ValidationError", f, errs[1])
  ELSE CNoExc

\* pattern_check(value, pattern, flags) called in the body of field f: it
\* builds PatternValidator(pattern, flags)
PatternCheck(v, pattern, flags, f) ==
  RaiseResult(PatternValidatorNew(<<pattern, flags>>), PatternValidate(v, pattern), f)

\* the flags argument of pattern_check left at its default
NoFlags == 0

\* field ssn of StringValidatorModel holding v: the body calls pattern_check(value, pattern)
PPatternCheck(pattern, v) ==
  /\ PNoCall
  /\ pcall' = PCall("pattern_check", <<pattern>>, v, PatternCheck(v, pattern, NoFlags, "ssn"))
  /\ UNCHANGED <<vvars, cvars>>

\* a call min_value_check(lo, lo_inclusive, value=v), max_value_check(hi,
\* hi_inclusive, value=v) or in_range_check(lo, hi, lo_inclusive, hi_inclusive, value=v)
ValueCheck(fn, lo, hi, lo_inclusive, hi_inclusive) ==
  [fn |-> fn, lo |-> lo, hi |-> hi, lo_inclusive |-> lo_inclusive, hi_inclusive |-> hi_inclusive]

ValueChecks ==
  {ValueCheck("min_value_check", b, 0, i, TRUE) : b \in NumBounds, i \in BOOLEAN}
    \cup {ValueCheck("max_value_check", 0, b, TRUE, i) : b \in NumBounds, i \in BOOLEAN}
    \cup {ValueCheck("in_range_check", lo, hi, li, hi_i) :
            lo \in NumBounds, hi \in NumBounds, li \in BOOLEAN, hi_i \in BOOLEAN}

\* the errors of the validator a value check builds
ValueCheckErrors(chk, v) ==
  CASE chk.fn = "min_value_check" -> ErrorKinds(MinValidate(v, chk.lo, chk.lo_inclusive))
    [] chk.fn = "max_value_check" -> ErrorKinds(MaxValidate(v, chk.hi, chk.hi_inclusive))
    [] chk.fn = "in_range_check" ->
         RangeValidate(v, chk.lo, chk.hi, chk.lo_inclusive, chk.hi_inclusive)

\* the call "validator.validate(fn, value, field_name or 'value')" and what
\* follows it: field_name is a local that is assigned only inside
\* "if value is None", so reading it when it is unbound raises
ValidateNamed(bound, errs, f) ==
  IF ~bound THEN CExc("UnboundLocalError", "", "UnboundLocal")
  ELSE IF errs # <<>> THEN CExc("ValidationError", f, errs[1])
  ELSE CNoExc

\* min_value_check / max_value_check / in_range_check called at module level
\* with value=v: with None the caller's frame is consulted and names no field
ExplicitValueCheck(chk, v) ==
  IF v = None THEN CExc("ValidationError", "", "NoFieldName")
  ELSE ValidateNamed(FALSE, ValueCheckErrors(chk, v), "")

PValueCheck(chk, v) ==
  /\ PNoCall
  /\ pcall' = PCall("value_check", <<chk>>, v, ExplicitValueCheck(chk, v))
  /\ UNCHANGED <<vvars, cvars>>

\* the items of the containers: a str, an int, a list of str
PItems == {S(<<"a">>), I(1), PyList(<<S(<<"a">>)>>)}

\* the values a type is matched against
PValues ==
  {None, S(<<"a">>), I(1), PyDict(<<>>)}
    \cup {PyTuple(q) : q \in ItemSeqs(PItems, MaxItems)}
    \cup {PyList(q) : q \in ItemSeqs(PItems, MaxItems)}
    \cup {PySet(q) : q \in {r \in ItemSeqs({S(<<"a">>), I(1)}, MaxItems) :
                               \A i, j \in DOMAIN r : r[i] = r[j] => i = j}}

\* the return annotations matched: those of AdvancedTypes, and tuples with
\* an Any position and with a position that is itself a container
PTypes ==
  {TTuple(<<TPrim("str"), TPrim("int")>>),
   TTuple(<<TPrim("str"), TPrim("int"), TPrim("str")>>),
   TTuple(<<TAny, TPrim("int")>>),
   TTuple(<<TList(TPrim("int")), TPrim("str")>>),
   TList(TPrim("int")), TList(TPrim("str")), TSet(TPrim("str")),
   TUnion(<<TPrim("str"), TPrim("int")>>), TOptional(TPrim("str")),
   TUnion(<<TList(TPrim("int")), TPrim("str")>>)}

\* TypeValidator(ty).validate(func, v, "field")
PMatch(ty, v) ==
  /\ PNoCall
  /\ pcall' = PCall("match", <<ty>>, v, TypeValidate(ty, v, "field"))
  /\ UNCHANGED <<vvars, cvars>>

\* a field declared "def field(self) -> ty" with validate(func,
\* is_optional=flag), holding v, and called: type_check, optional_check, body
PField(ty, flag, v) ==
  /\ PNoCall
  /\ pcall' = PCall("field", <<ty, flag>>, v,
                    CWrapper("AdvancedTypes", CField("field", ty, "direct", flag, <<>>),
                             <<Entry("field", v)>>))
  /\ UNCHANGED <<vvars, cvars>>

PInit ==
  /\ PNoCall
  /\ cls = "Number"
  /\ registry = <<"minnumber", "maxnumber">>
  /\ VNoInstance
  /\ ccls = "User"
  /\ CNoInstance

PNext ==
  \/ PNoCall /\ \E b \in NumBounds, inclusive \in BOOLEAN, v \in NumValues : PMin(b, inclusive, v)
  \/ PNoCall /\ \E b \in NumBounds, inclusive \in BOOLEAN, v \in NumValues : PMax(b, inclusive, v)
  \/ PNoCall /\ \E lo \in NumBounds, hi \in NumBounds, li \in BOOLEAN, hi_i \in BOOLEAN, v \in NumValues :
       PRange(lo, hi, li, hi_i, v)
  \/ PNoCall /\ \E allowed \in EnumAllowed, cs \in BOOLEAN, v \in EnumValues : PEnum(allowed, cs, v)
  \/ PNoCall /\ \E sv \in StrValidators, v \in StrValues : PString(sv, v)
  \/ PNoCall /\ \E p \in {SsnPattern, DigitPattern}, v \in StrValues : PPatternCheck(p, v)
  \/ PNoCall /\ \E chk \in ValueChecks, v \in NumValues : PValueCheck(chk, v)
  \/ PNoCall /\ \E ty \in PTypes, v \in PValues : PMatch(ty, v)
  \/ PNoCall /\ \E ty \in PTypes, flag \in BOOLEAN, v \in PValues : PField(ty, flag, v)

SpecP == PInit /\ [][PNext]_allvars

\* ------------------------------------------------------------------------
\* Properties of the validator.py engine (SpecV)
\* ------------------------------------------------------------------------
\* v lies outside a bound that is explicitly attached to the field
ViolatesBound(decl, v) ==
  /\ v.t = "int"
  /\ \E i \in DOMAIN decl.validators :
       \/ decl.validators[i].kind = "minnumber" /\ v.n < decl.validators[i].arg
       \/ decl.validators[i].kind = "maxnumber" /\ v.n > decl.validators[i].arg

\* C1: on a constructed instance, every set field(v) whose value violates a
\* bound attached to the field raises, and no get returns a value that
\* violates a bound attached to the field.
C1_SetRaisesGetInBound ==
  /\ (last.op = "set" /\ ViolatesBound(VClass(cls)[last.f], last.arg))
       => last.exc # NoExc
  /\ (last.op = "get" /\ last.exc = NoExc)
       => ~ViolatesBound(VClass(cls)[last.f], last.ret)

\* the value the explicit validators of field f leave as its transformed value
\* when all of them accept the constructor value fv (the last one that carries
\* a value decides), None when one of them rejects it or none carries a value
RECURSIVE Transformed(_, _, _, _)
Transformed(decl, fv, i, acc) ==
  IF i > Len(decl.validators) THEN acc
  ELSE LET out == VValidatorValidate(decl.validators[i].kind, decl.validators[i].arg, fv)
       IN IF ~out.valid THEN None
          ELSE Transformed(decl, fv, i + 1, IF out.value # None THEN out.value ELSE acc)

\* C9: the first get after a successful construction returns the value the
\* field's validators transformed the constructor value into.
C9_GetReturnsTransformed ==
  (/\ last.op = "get"
   /\ ops = 1
   /\ last.f \in DOMAIN fields
   /\ Transformed(VClass(cls)[last.f], fields[last.f], 1, None) # None)
    => /\ last.exc = NoExc
       /\ last.ret = Transformed(VClass(cls)[last.f], fields[last.f], 1, None)

\* the last call was a validation of the whole instance
Validated == last.op \in {"construct", "validate"}

\* the validation of field f was started by the last call
Started(f) == \E i \in DOMAIN log : log[i].f = f /\ log[i].ph = "body"

\* the kinds of the checks of phase ph the last call ran on field f, in order
RECURSIVE KindsRun(_, _, _)
KindsRun(f, ph, i) ==
  IF i > Len(log) THEN <<>>
  ELSE (IF log[i].f = f /\ log[i].ph = ph THEN <<log[i].kind>> ELSE <<>>)
       \o KindsRun(f, ph, i + 1)

\* the kinds attached to a field, in attachment order
AttachedKinds(decl) == [i \in DOMAIN decl.validators |-> decl.validators[i].kind]

IsPrefix(p, q) == Len(p) <= Len(q) /\ \A i \in DOMAIN p : p[i] = q[i]

\* the default check of kind K ran on field f in the last call
DefaultRan(f, K) == \E i \in DOMAIN log : log[i] = Event(f, "default", K)

InvalidFields ==
  {data[i].k : i \in {j \in DOMAIN data :
                        /\ CDeclares(ccls, data[j].k)
                        /\ CWrapper(ccls, CDeclOf(ccls, data[j].k), data).exc # CNoExc}}

\* C2: validate(raise_exception=False) on an instance with invalid fields
\* returns an invalid result that holds an error for each of those fields.
C2_ErrorPerInvalidField ==
  (clast.op = "validate" /\ clast.arg = FALSE /\ InvalidFields # {}) =>
    /\ clast.exc = CNoExc
    /\ ~clast.ret.is_valid
    /\ \A f \in InvalidFields :
         \E i \in DOMAIN clast.ret.errors : clast.ret.errors[i].field = f

\* C3: validate(raise_exception=False) never raises.
C3_NonRaisingNeverRaises ==
  (clast.op = "validate" /\ clast.arg = FALSE) => clast.exc = CNoExc

\* the failures of the none check and of the type match
NoneOrTypeKinds ==
  {"NoneNotAllowed", "TypeMismatch", "UnionMismatch", "ItemType", "DictKey",
   "DictValue", "Arity", "TupleItem", "SetItem"}

NoneAllowance(decl) == IsOptionalField(decl.ann) \/ decl.flag

\* C8: constructing a model with a single field, set to None, fails with the
\* none-not-allowed error exactly when the field has no none-allowance, and
\* after a successful construction get returns None.
C8_NoneFailsIffNoAllowance ==
  /\ (/\ clast.op = "construct"
      /\ Len(clast.arg) = 1
      /\ clast.arg[1].v = None)
       => (clast.exc.kind = "NoneNotAllowed"
             <=> ~NoneAllowance(CDeclOf(ccls, clast.arg[1].k)))
  /\ (/\ clast.op = "get"
      /\ ODHas(data, clast.arg)
      /\ ODGet(data, clast.arg) = None
      /\ NoneAllowance(CDeclOf(ccls, clast.arg)))
       => (clast.exc = CNoExc /\ clast.ret = None)

\* C10: from_dict(to_dict(x)) succeeds and equals x.
C10_RoundTrip ==
  clast.op = "roundtrip" => (clast.exc = CNoExc /\ clast.equal)

\* C11: when validate(raise_exception=False) is called right after another
\* validate(raise_exception=False) on a constructed instance (one that has
\* its self._data) all of whose stored fields
\* pass their checks, both calls return a result without errors and the
\* second call leaves self._data as it was.
C11_ValidateTwiceIdempotent ==
  [][(/\ clast.op = "validate" /\ clast.arg = FALSE
      /\ calive = "live" /\ InvalidFields = {}
      /\ clast'.op = "validate" /\ clast'.arg = FALSE
      /\ cops' = cops + 1) =>
       (/\ clast.exc = CNoExc /\ clast.ret.errors = <<>>
        /\ clast'.exc = CNoExc /\ clast'.ret.errors = <<>>
        /\ data' = data)]_allvars

\* two validate(raise_exception=False) in a row on a valid, non-empty instance
C11_Witness ==
  /\ clast.op = "validate" /\ clast.arg = FALSE
  /\ cprev.op = "validate" /\ cprev.nonraising
  /\ calive = "live" /\ InvalidFields = {}
  /\ data # <<>>
  /\ clast.exc = CNoExc /\ clast.ret.errors = <<>>

\* C12: a construction with both a positional argument and keyword arguments
\* raises the error for mutually exclusive arguments, whatever the values
\* are, and nothing was stored and no check of any field was executed.
C12_ArgsAndKwargsRejectedFirst ==
  (/\ clast.op = "construct_args"
   /\ Len(clast.arg.args) > 0
   /\ Len(clast.arg.kwargs) > 0) =>
    /\ clast.exc = CExc("ValueError", "", "ArgsAndKwargs")
    /\ calive = "dead"
    /\ data = <<>>
    /\ clog = <<>>

\* a dict and a keyword argument whose value the field would reject
C12_Witness ==
  /\ clast.op = "construct_args"
  /\ Len(clast.arg.args) = 1 /\ clast.arg.args[1].t = "dict"
  /\ Len(clast.arg.kwargs) = 1
  /\ CConstructRun(ccls, clast.arg.kwargs).exc # CNoExc
  /\ clast.exc.type = "ValueError"

\* ValidationError.field read as a path: the engine sets it to a field name
ErrorPath(exc) == <<exc.field>>

\* the path "{field}[{i}].{child}" of a failing child field of element i
ItemPath(f, i, child) == <<f, i, child>>

\* the element is an instance of model class c that passes its checks, or a
\* mapping that the constructor of c accepts
ValidItem(item, c) ==
  \/ IsOfType(item, TModel(c)) /\ CValidateRun(c, item.d, 1).exc = CNoExc
  \/ item.t = "dict" /\ CConstructRun(c, item.d).exc = CNoExc

\* the element is a mapping that the constructor of c rejects
RejectedItem(item, c) == item.t = "dict" /\ CConstructRun(c, item.d).exc # CNoExc

\* exactly the element at index i (counted from 0) of the list is invalid
OnlyInvalidAt(items, i, c) ==
  /\ i + 1 \in DOMAIN items
  /\ RejectedItem(items[i + 1], c)
  /\ \A j \in DOMAIN items \ {i + 1} : ValidItem(items[j], c)

\* the construction passed only the list-of-model field addresses
OnlyAddresses ==
  /\ clast.op = "construct" /\ ccls = "UserProfile"
  /\ Len(clast.arg) = 1 /\ clast.arg[1].k = "addresses"
  /\ clast.arg[1].v.t = "list"

\* C13: when exactly the element at index i of a list-of-model field is
\* invalid, validation reports one error, whose path is the field name, the
\* index i and the failing child field ("addresses[1].city").
C13_OneErrorAtElementPath ==
  \A i \in 0..1 :
    (OnlyAddresses /\ OnlyInvalidAt(clast.arg[1].v.l, i, "Address")) =>
      /\ clast.exc.type = "ValidationError"
      /\ \E child \in CFieldNames("Address") :
           ErrorPath(clast.exc) = ItemPath("addresses", i, child)

\* the elements of the list are mappings and valid instances of c, with at
\* least one mapping
MappingItems(items, c) ==
  /\ \E j \in DOMAIN items : items[j].t = "dict"
  /\ \A j \in DOMAIN items : items[j].t = "dict" \/ ValidItem(items[j], c)

\* C14: the mapping elements of a list-of-model field are coerced with the
\* nested model's constructor: when the constructor accepts them all there is
\* no error, when it rejects one the error is the nested model's own field
\* error, and in neither case is the item type mismatch reported.
C14_MappingElementsCoerced ==
  (OnlyAddresses /\ MappingItems(clast.arg[1].v.l, "Address")) =>
    /\ clast.exc.kind # "ItemType"
    /\ (\A j \in DOMAIN clast.arg[1].v.l : ValidItem(clast.arg[1].v.l[j], "Address"))
         => clast.exc = CNoExc
    /\ (\E j \in DOMAIN clast.arg[1].v.l : RejectedItem(clast.arg[1].v.l[j], "Address"))
         => (/\ clast.exc.type = "ValidationError"
             /\ clast.exc.field \in CFieldNames("Address"))

\* a value that is neither an instance of model class c, nor a mapping, nor
\* a text form
OtherShape(v, c) == v # None /\ ~IsOfType(v, TModel(c)) /\ v.t \notin {"dict", "str"}

\* the value given for a field that references a nested model has another
\* shape, or is a list of valid instances and elements of another shape
HasOtherShape(decl, v) ==
  \/ decl.ann.k = "model" /\ OtherShape(v, decl.ann.name)
  \/ /\ decl.ann.k = "list" /\ decl.ann.args[1].k = "model" /\ v.t = "list"
     /\ \E j \in DOMAIN v.l : OtherShape(v.l[j], decl.ann.args[1].name)
     /\ \A j \in DOMAIN v.l : \/ OtherShape(v.l[j], decl.ann.args[1].name)
                               \/ ValidItem(v.l[j], decl.ann.args[1].name)

\* C15: a value of another shape given for a field that references a nested
\* model, directly or as list element, is reported as a type mismatch
\* ValidationError; no other exception leaves the construction.
C15_OtherShapeIsTypeMismatch ==
  (/\ clast.op = "construct"
   /\ Len(clast.arg) = 1
   /\ HasOtherShape(CDeclOf(ccls, clast.arg[1].k), clast.arg[1].v)) =>
    /\ clast.exc.type = "ValidationError"
    /\ clast.exc.kind \in {"TypeMismatch", "ItemType"}

\* ------------------------------------------------------------------------
\* Properties of the validators applied on their own (SpecP)
\* ------------------------------------------------------------------------
\* the number n satisfies the lower bound b: inside, or on an inclusive bound
AtLeast(n, b, inclusive) == n > b \/ (inclusive /\ n = b)

AtMost(n, b, inclusive) == n < b \/ (inclusive /\ n = b)

\* C16: the min, max and range validators accept a number exactly when it is
\* strictly inside each bound or equal to an inclusive bound: the bound
\* itself passes when inclusive and fails when exclusive, a value strictly
\* outside a bound fails.
C16_BoundaryInclusion ==
  (pcall.fn \in {"min", "max", "range"} /\ IsNumber(pcall.value)) =>
    /\ pcall.fn = "min" =>
         (pcall.res = <<>> <=> AtLeast(pcall.value.n, pcall.params[1], pcall.params[2]))
    /\ pcall.fn = "max" =>
         (pcall.res = <<>> <=> AtMost(pcall.value.n, pcall.params[1], pcall.params[2]))
    /\ pcall.fn = "range" =>
         (pcall.res = <<>> <=>
            /\ AtLeast(pcall.value.n, pcall.params[1], pcall.params[3])
            /\ AtMost(pcall.value.n, pcall.params[2], pcall.params[4]))

\* a number on an inclusive minimum passed
C16_Witness ==
  /\ pcall.fn = "min"
  /\ IsNumber(pcall.value)
  /\ pcall.value.n = pcall.params[1]
  /\ pcall.params[2]
  /\ pcall.res = <<>>

\* the positions of the items that do not match the type at their position
Mismatched(items, types) ==
  {i \in DOMAIN items : ~IsOfType(items[i], types[i])}

\* the errors are of the given kind, one for each of the positions (counted
\* from 0 in the errors), and no other
OnePerPosition(errors, kind, positions) ==
  /\ Len(errors) = Cardinality(positions)
  /\ \A i \in DOMAIN errors : errors[i].kind = kind /\ errors[i].at + 1 \in positions
  /\ \A q \in positions : \E i \in DOMAIN errors : errors[i].at + 1 = q

Matches(ty, v) == v # None /\ TypeValidate(ty, v, "field") = TOk

C19_ContainerKindThenElements ==
  (/\ pcall.fn = "match"
   /\ pcall.params[1].k \in {"list", "set"}
   /\ pcall.value # None) =>
    /\ pcall.res.exc = CNoExc
    /\ IF pcall.value.t # pcall.params[1].k
       THEN pcall.res.errors = <<Error("TypeMismatch", "field", -1)>>
       ELSE OnePerPosition(pcall.res.errors,
                           IF pcall.params[1].k = "list" THEN "ItemType" ELSE "SetItem",
                           Mismatched(pcall.value.l,
                                      [i \in DOMAIN pcall.value.l |-> pcall.params[1].args[1]]))

\* the position of field f in the class body of c
DeclIndex(c, f) == CHOOSE i \in DOMAIN CClass(c) : CClass(c)[i].name = f

\* C20: validate() runs the checks of the fields in the order the class
\* declares them, and the error it reports is that of the first invalid
\* field in that order, whatever the order of the constructor's keys and the
\* alphabetical order of the names.
C20_DeclarationOrder ==
  (clast.op = "validate" /\ calive = "live") =>
    /\ \A i, j \in DOMAIN clog :
         i < j => DeclIndex(ccls, clog[i].f) <= DeclIndex(ccls, clog[j].f)
    /\ clast.exc # CNoExc =>
         \A f \in InvalidFields :
           DeclIndex(ccls, clog[Len(clog)].f) <= DeclIndex(ccls, f)


\* C21: a one-of validator configured case-insensitive passes a string value
\* exactly when its lower-cased form equals the lower-cased form of some
\* allowed string; configured case-sensitive it passes a string exactly when
\* the string is a member of the allowed values; a failing string produces one
\* error, whose message lists every allowed value.
EnumCall == pcall.fn = "enum" /\ ~pcall.params[1].any /\ pcall.value.t = "str"

LowerMember(q, values) ==
  \E i \in DOMAIN values : values[i].t = "str" /\ Lower(values[i].s) = Lower(q)

C21_OneOfCaseFolding ==
  EnumCall =>
    /\ ~pcall.params[2] =>
         (pcall.res = <<>> <=> LowerMember(pcall.value.s, pcall.params[1].values))
    /\ pcall.params[2] =>
         (pcall.res = <<>> <=> \E i \in DOMAIN pcall.params[1].values :
                                  pcall.params[1].values[i] = pcall.value)
    /\ pcall.res # <<>> =>
         /\ Len(pcall.res) = 1
         /\ pcall.res[1].listed = pcall.params[1].values

\* the value "A" passes case-insensitively against the allowed values ("a", "b")
C21_Witness ==
  /\ EnumCall
  /\ ~pcall.params[2]
  /\ pcall.value = S(<<"A">>)
  /\ pcall.params[1].values = <<S(<<"a">>), S(<<"b">>)>>
  /\ pcall.res = <<>>


\* C22: a numeric validator given a value other than None that is not a
\* number, and a string validator given a value other than None that is not a
\* string, report exactly one error, the wrong-kind error, and no bound,
\* length or pattern error.
WrongKindForNumber ==
  /\ pcall.fn \in {"min", "max", "range"}
  /\ pcall.value # None
  /\ pcall.value.t \notin {"int", "float"}

WrongKindForString ==
  /\ pcall.fn = "string"
  /\ pcall.value # None
  /\ pcall.value.t # "str"

C22_WrongKindOnlyError ==
  /\ WrongKindForNumber => pcall.res = <<"NotANumber">>
  /\ WrongKindForString => pcall.res = <<"NotAString">>

\* min_length 2 applied to the int 1
C22_Witness ==
  /\ WrongKindForString
  /\ pcall.params[1].kind = "min_length"
  /\ pcall.params[1].lo = 2
  /\ pcall.value = I(1)
  /\ pcall.res = <<"NotAString">>


\* C23: pattern_check(value, regex) on a string returns normally when the
\* regex matches the string and raises a ValidationError saying the string
\* does not match the pattern when it does not; no other kind of exception
\* is raised.
C23_PatternCheckAcceptsMatches ==
  (pcall.fn = "pattern_check" /\ pcall.value.t = "str") =>
    IF PatternMatch(pcall.params[1], pcall.value.s)
    THEN pcall.res = CNoExc
    ELSE pcall.res.type = "ValidationError" /\ pcall.res.kind = "NoMatch"

\* C28: min_value_check, max_value_check and in_range_check called with an
\* explicit value other than None return normally when the number satisfies
\* the bound, raise ValidationError when it does not, and raise no other kind
\* of exception.
WithinCheck(chk, n) ==
  /\ chk.fn \in {"min_value_check", "in_range_check"} => AtLeast(n, chk.lo, chk.lo_inclusive)
  /\ chk.fn \in {"max_value_check", "in_range_check"} => AtMost(n, chk.hi, chk.hi_inclusive)

C28_ExplicitValueChecked ==
  (pcall.fn = "value_check" /\ pcall.value # None) =>
    /\ pcall.res.type \in {"none", "ValidationError"}
    /\ IsNumber(pcall.value) =>
         (pcall.res = CNoExc <=> WithinCheck(pcall.params[1], pcall.value.n))


\* C24: constructing a model from one positional mapping yields an instance
\* initialised and validated like the one built from the same pairs as
\* keyword arguments: construction raises the same, the instance holds the
\* same data, and get(field) and to_dict() on it return instead of failing.
FromMapping ==
  /\ clast.op = "construct_args"
  /\ Len(clast.arg.args) = 1
  /\ clast.arg.args[1].t = "dict"
  /\ clast.arg.kwargs = <<>>

C24_MappingLikeKeywords ==
  /\ FromMapping =>
       /\ clast.exc = CConstructRun(ccls, clast.arg.args[1].d).exc
       /\ clast.exc = CNoExc =>
            /\ calive = "live"
            /\ data = CConstructRun(ccls, clast.arg.args[1].d).data
  /\ clast.op \in {"get", "roundtrip"} => clast.exc.type # "AttributeError"


\* ------------------------------------------------------------------------
\* Further properties of the validator.py engine (SpecV)
\* ------------------------------------------------------------------------
\* C25: a set operation field(v) that raises leaves the cached value of the
\* field and of every other field as it was before the call, and a get of
\* any field finds what it found before.
FailedSet == last.op = "set" /\ last.exc # NoExc

C25_FailedSetKeepsValues ==
  [][(last'.op = "set" /\ last'.exc # NoExc /\ ops' = ops + 1) =>
       /\ cached_values' = cached_values
       /\ \A f \in VFieldSet(cls) :
            /\ VGetAttribute(wrapped_values', cached_values', inst_dict', f).how
                 = VGetAttribute(wrapped_values, cached_values, inst_dict, f).how
            /\ VGetAttribute(wrapped_values', cached_values', inst_dict', f).value
                 = VGetAttribute(wrapped_values, cached_values, inst_dict, f).value]_allvars

\* value_custom(15) raised on an instance that holds value_custom = 10: the
\* cached value is still 10
C25_Witness ==
  /\ FailedSet
  /\ last.f = "value_custom"
  /\ last.arg = I(Forbidden)
  /\ "value_custom" \in DOMAIN cached_values
  /\ cached_values["value_custom"] = I(MinBound)


\* C26: a declared field that was not supplied to the constructor is skipped
\* during validation: neither its body nor any check runs on it, and
\* constructing a model with no arguments succeeds.
C26_MissingFieldSkipped ==
  last.op = "construct" =>
    /\ \A i \in DOMAIN log : log[i].f \in DOMAIN fields
    /\ fields = EmptyDict => last.exc = NoExc


\* C29: after any sequence of construct, get, set and validate() operations,
\* every field that has both a wrapped accessor value and a cached value has
\* the two equal: get(field) returns the field's current cached value.
C29_WrappedEqualsCached ==
  \A f \in DOMAIN wrapped_values \cap DOMAIN cached_values :
    wrapped_values[f] = cached_values[f]

\* C30: a successful set is durable: a validate() that follows set(field, v)
\* validates v for that field (the value it reads from the stored fields is
\* v), and get(field) after that validate() returns v.
C30_SetIsDurable ==
  [][(/\ last.op = "set"
      /\ last.exc = NoExc
      /\ last'.op = "validate"
      /\ ops' = ops + 1) =>
       /\ DictGet(fields, last.f) = last.arg
       /\ VGetAttribute(wrapped_values', cached_values', inst_dict', last.f).value
            = last.arg]_allvars


\* C27: any failure while validating a field (an exception of any type raised
\* by the field body, by an explicit validator or by a default check, or an
\* invalid outcome) leaves construction and validate() as a
\* ValidationException whose field_name is the name of that field, the one
\* whose check ran last; no other exception type escapes.
C27_FailureIsValidationException ==
  (last.op \in {"construct", "validate"} /\ last.exc # NoExc) =>
    /\ last.exc.type = "ValidationException"
    /\ log # <<>>
    /\ last.exc.field = log[Len(log)].f

====
